---------------------------- MODULE Spec2Model ----------------------------
(***************************************************************************)
(* A model of ipbin.py: the dotted-quad <-> integer conversions (iptoint,  *)
(* inttoip) and the interval-bisection codec (encode, decode_exactly,      *)
(* decode).                                                                *)
(*                                                                         *)
(* Python integers are unbounded and Python floats are IEEE-754 doubles.   *)
(* Both exceed the integers of the model checker, so                       *)
(*   - an integer is a sequence of bits, least significant first, with no  *)
(*     leading zero (0 is the empty sequence);                             *)
(*   - a non-negative double is a dyadic rational n / 2^s, n an integer as *)
(*     above, kept canonical (n odd, or s = 0), and every float operation  *)
(*     rounds its exact result to 53 significant bits, ties to even.       *)
(* Strings are sequences of one-character strings.                         *)
(***************************************************************************)
EXTENDS Integers, Sequences, FiniteSets, TLC

(***************************************************************************)
(* Unbounded naturals (Python int)                                         *)
(***************************************************************************)
RECURSIVE StripHigh(_)
StripHigh(b) ==
    IF b = <<>> THEN <<>>
    ELSE IF b[Len(b)] = 0 THEN StripHigh(SubSeq(b, 1, Len(b) - 1))
    ELSE b

RECURSIVE NatToBits(_)
NatToBits(n) == IF n = 0 THEN <<>> ELSE <<n % 2>> \o NatToBits(n \div 2)

Zeros(k) == [i \in 1..k |-> 0]

ShiftL(b, k) == IF b = <<>> THEN <<>> ELSE Zeros(k) \o b

BitAt(b, i) == IF i <= Len(b) THEN b[i] ELSE 0

RECURSIVE AddCarry(_, _, _, _, _)
AddCarry(a, b, i, n, c) ==
    IF i > n THEN (IF c = 1 THEN <<1>> ELSE <<>>)
    ELSE LET t == BitAt(a, i) + BitAt(b, i) + c
         IN  <<t % 2>> \o AddCarry(a, b, i + 1, n, t \div 2)

BAdd(a, b) ==
    LET n == IF Len(a) > Len(b) THEN Len(a) ELSE Len(b)
    IN  AddCarry(a, b, 1, n, 0)

RECURSIVE LtFrom(_, _, _)
LtFrom(a, b, i) ==
    IF i = 0 THEN FALSE
    ELSE IF a[i] # b[i] THEN a[i] < b[i]
    ELSE LtFrom(a, b, i - 1)

BLt(a, b) ==
    IF Len(a) # Len(b) THEN Len(a) < Len(b) ELSE LtFrom(a, b, Len(a))

BLeq(a, b) == a = b \/ BLt(a, b)

(***************************************************************************)
(* Doubles (Python float), non-negative                                    *)
(***************************************************************************)
MantBits == 53

RECURSIVE LowZeros(_, _)
LowZeros(b, i) ==
    IF i > Len(b) THEN Len(b)
    ELSE IF b[i] = 1 THEN i - 1
    ELSE LowZeros(b, i + 1)

Canon(n, s) ==
    IF n = <<>> THEN [n |-> <<>>, s |-> 0]
    ELSE LET z == LowZeros(n, 1)
             k == IF z < s THEN z ELSE s
         IN  [n |-> SubSeq(n, k + 1, Len(n)), s |-> s - k]

DAdd(a, b) ==
    LET s == IF a.s > b.s THEN a.s ELSE b.s
    IN  Canon(BAdd(ShiftL(a.n, s - a.s), ShiftL(b.n, s - b.s)), s)

DLeq(a, b) ==
    LET s == IF a.s > b.s THEN a.s ELSE b.s
    IN  BLeq(ShiftL(a.n, s - a.s), ShiftL(b.n, s - b.s))

DHalf(a) == Canon(a.n, a.s + 1)

Round53(d) ==
    IF Len(d.n) <= MantBits THEN d
    ELSE LET t    == Len(d.n) - MantBits
             q    == SubSeq(d.n, t + 1, Len(d.n))
             r    == StripHigh(SubSeq(d.n, 1, t))
             half == ShiftL(<<1>>, t - 1)
             up   == BLt(half, r) \/ (r = half /\ q[1] = 1)
             m    == IF up THEN BAdd(q, <<1>>) ELSE q
         IN  IF d.s >= t THEN Canon(m, d.s - t)
             ELSE Canon(ShiftL(m, t - d.s), 0)

FromInt(b) == Round53(Canon(b, 0))

FAdd(a, b) == Round53(DAdd(a, b))

FHalf(a) == Round53(DHalf(a))

IntGtFloat(x, f) == BLt(f.n, ShiftL(x, f.s))


(***************************************************************************)
(* Module constants of ipbin.py                                            *)
(***************************************************************************)
\* (variant) a decode table that folds upper case onto lower case
decodemapFolded ==
    [c \in {"0", "1", "a", "b", "c", "d", "e", "f", "A", "B", "C", "D", "E", "F"} |->
        CASE c \in {"0"} -> 0 [] c \in {"1"} -> 1 [] c \in {"a", "A"} -> 2
          [] c \in {"b", "B"} -> 3 [] c \in {"c", "C"} -> 4 [] c \in {"d", "D"} -> 5
          [] c \in {"e", "E"} -> 6 [] OTHER -> 7]

base32 == <<"0", "1", "a", "b", "c", "d", "e", "f">>

decodemap ==
    [c \in {base32[i] : i \in 1..Len(base32)} |->
        (CHOOSE i \in 1..Len(base32) : base32[i] = c) - 1]

bits == <<4, 2, 1>>

MaxPrecision == 10

AddrBits == 32

\* 4294967295, the upper end of the interval both codecs start from
IpMax == [i \in 1..AddrBits |-> 1]

InitInterval == <<FromInt(<<>>), FromInt(IpMax)>>

BitAnd(v, m) == IF (v \div m) % 2 = 1 THEN m ELSE 0

BitOr(v, m) == IF (v \div m) % 2 = 1 THEN v ELSE v + m

\* (variant) the midpoint taken of the upper end alone
MidOfHigh(iv) == FHalf(iv[2])

Mid(iv) == FHalf(FAdd(iv[1], iv[2]))

Min(a, b) == IF a < b THEN a ELSE b

(***************************************************************************)
(* encode                                                                  *)
(***************************************************************************)
\* (variant) no clamp
NoClamp(p) == p

ClampPrecision(p) == Min(p, MaxPrecision)

EncodeInit == [ip_interval |-> InitInterval, ipbin |-> <<>>, bit |-> 0, char |-> 0]

UpperHalf(iv) == <<Mid(iv), iv[2]>>

LowerHalf(iv) == <<iv[1], Mid(iv)>>

\* (variant) the comparison made with >= in place of >
EncodeTestGE(x, iv) == IntGtFloat(x, Mid(iv)) \/ Canon(x, 0) = Mid(iv)

EncodeTest(x, iv) == IntGtFloat(x, Mid(iv))

\* (variant) the character put in front
EmitFront(tok, c) == <<base32[c + 1]>> \o tok

Emit(tok, c) == Append(tok, base32[c + 1])

\* one iteration of the while loop of encode
EncodeBody(x, L) ==
    LET gt == EncodeTest(x, L.ip_interval)
        c  == IF gt THEN BitOr(L.char, bits[L.bit + 1]) ELSE L.char
        iv == IF gt THEN UpperHalf(L.ip_interval) ELSE LowerHalf(L.ip_interval)
    IN  IF L.bit < 2
        THEN [ip_interval |-> iv, ipbin |-> L.ipbin, bit |-> L.bit + 1, char |-> c]
        ELSE [ip_interval |-> iv, ipbin |-> Emit(L.ipbin, c), bit |-> 0, char |-> 0]

RECURSIVE EncodeLoop(_, _, _)
EncodeLoop(x, prec, L) ==
    IF Len(L.ipbin) < prec THEN EncodeLoop(x, prec, EncodeBody(x, L)) ELSE L.ipbin

encode(x, p) == EncodeLoop(x, ClampPrecision(p), EncodeInit)

(***************************************************************************)
(* decode_exactly, decode                                                  *)
(***************************************************************************)
DecodeInit == [ip_interval |-> InitInterval, ip_range |-> Mid(InitInterval), pos |-> 1]

\* (variant) the upper half taken when the bit is clear
DecodeBodySwapped(L, cd, mask) ==
    [ip_range    |-> FHalf(L.ip_range),
     ip_interval |-> IF BitAnd(cd, mask) = 0 THEN UpperHalf(L.ip_interval)
                     ELSE LowerHalf(L.ip_interval),
     pos         |-> L.pos]

\* (variant) ip_range halved once per character
DecodeBodyRangePerChar(L, cd, mask) ==
    [ip_range    |-> IF mask = 4 THEN FHalf(L.ip_range) ELSE L.ip_range,
     ip_interval |-> IF BitAnd(cd, mask) # 0 THEN UpperHalf(L.ip_interval)
                     ELSE LowerHalf(L.ip_interval),
     pos         |-> L.pos]

\* one iteration of the inner loop (for mask in [4, 2, 1])
DecodeBody(L, cd, mask) ==
    [ip_range    |-> FHalf(L.ip_range),
     ip_interval |-> IF BitAnd(cd, mask) # 0 THEN UpperHalf(L.ip_interval)
                     ELSE LowerHalf(L.ip_interval),
     pos         |-> L.pos]

\* one iteration of the outer loop (for char in ipbin), the lookup done
DecodeChar(L, cd) ==
    LET R == DecodeBody(DecodeBody(DecodeBody(L, cd, bits[1]), cd, bits[2]), cd, bits[3])
    IN  [R EXCEPT !.pos = L.pos + 1]

Known(c) == c \in DOMAIN decodemap

RECURSIVE DecodeLoop(_, _)
DecodeLoop(tok, L) ==
    IF L.pos > Len(tok)
    THEN [ok |-> TRUE, value |-> Mid(L.ip_interval), margin |-> L.ip_range]
    ELSE IF ~Known(tok[L.pos]) THEN [ok |-> FALSE, error |-> "KeyError"]
    ELSE DecodeLoop(tok, DecodeChar(L, decodemap[tok[L.pos]]))

decode_exactly(tok) == DecodeLoop(tok, DecodeInit)

decode(tok) ==
    LET r == decode_exactly(tok)
    IN  IF r.ok THEN [ok |-> TRUE, value |-> r.value] ELSE r

(***************************************************************************)
(* Characters and numerals                                                 *)
(***************************************************************************)
HexDigits == <<"0", "1", "2", "3", "4", "5", "6", "7", "8", "9",
               "a", "b", "c", "d", "e", "f">>

UpperHex == <<"A", "B", "C", "D", "E", "F">>

\* value of a character as a digit; 99 for a character that is no digit
DigitVal(c) ==
    IF \E i \in 1..16 : HexDigits[i] = c
    THEN (CHOOSE i \in 1..16 : HexDigits[i] = c) - 1
    ELSE IF \E i \in 1..6 : UpperHex[i] = c
    THEN (CHOOSE i \in 1..6 : UpperHex[i] = c) + 9
    ELSE 99

IsDigit(c) == DigitVal(c) < 10

IsSpace(c) == c \in {" ", "\t", "\n"}

NUL == "NUL"

CharAt(cp, i) == IF i <= Len(cp) THEN cp[i] ELSE NUL

RECURSIVE BitsToNat(_)
BitsToNat(b) == IF b = <<>> THEN 0 ELSE b[1] + 2 * BitsToNat(Tail(b))

\* val * base + d on unbounded naturals, base one of 8, 10, 16
MulAdd(val, base, d) ==
    LET m == CASE base = 8  -> ShiftL(val, 3)
               [] base = 16 -> ShiftL(val, 4)
               [] OTHER     -> BAdd(ShiftL(val, 3), ShiftL(val, 1))
    IN  BAdd(m, NatToBits(d))

\* width of unsigned long: past it strtoul saturates and reports ERANGE
ULongBits == 64

\* the digits of one number; a value past ULongBits stays out of range
RECURSIVE Accumulate(_, _, _, _)
Accumulate(cp, j, base, val) ==
    IF DigitVal(CharAt(cp, j)) >= base THEN [val |-> val, end |-> j]
    ELSE IF Len(val) > ULongBits THEN Accumulate(cp, j + 1, base, val)
    ELSE Accumulate(cp, j + 1, base, MulAdd(val, base, DigitVal(cp[j])))

\* strtoul(cp + i, &endp, 0) of the C library, cp[i] a digit
StrToUL(cp, i) ==
    IF cp[i] = "0" /\ CharAt(cp, i + 1) \in {"x", "X"} /\ DigitVal(CharAt(cp, i + 2)) < 16
    THEN Accumulate(cp, i + 2, 16, <<>>)
    ELSE IF cp[i] = "0" THEN Accumulate(cp, i, 8, <<>>)
    ELSE Accumulate(cp, i, 10, <<>>)

\* the k low bytes of val, most significant first
BigEndian(val, k) ==
    [j \in 1..k |-> BitsToNat([t \in 1..8 |-> BitAt(val, (k - j) * 8 + t)])]

Fail(e) == [ok |-> FALSE, error |-> e]

Ok(v) == [ok |-> TRUE, ret |-> v]

(***************************************************************************)
(* socket.inet_aton, socket.inet_ntoa                                      *)
(***************************************************************************)
\* (variant) the bytes packed least significant first
PackLittleEndian(parts, val) ==
    LET b == parts \o BigEndian(val, 4 - Len(parts)) IN [i \in 1..4 |-> b[5 - i]]

\* how the parts already read and the last number are packed into 4 bytes
Pack(parts, val) == parts \o BigEndian(val, 4 - Len(parts))

\* the last number fits the bytes the parts before it leave free
LastFits(parts, val) == Len(val) <= 8 * (4 - Len(parts))

RECURSIVE AtonLoop(_, _, _)
AtonLoop(cp, i, parts) ==
    IF ~IsDigit(CharAt(cp, i)) THEN Fail("OSError")
    ELSE LET r == StrToUL(cp, i)
             c == CharAt(cp, r.end)
         IN  IF Len(r.val) > 32 THEN Fail("OSError")
             ELSE IF c = "."
             THEN IF Len(parts) > 2 \/ Len(r.val) > 8 THEN Fail("OSError")
                  ELSE AtonLoop(cp, r.end + 1, Append(parts, BitsToNat(r.val)))
             ELSE IF c # NUL /\ ~IsSpace(c) THEN Fail("OSError")
             ELSE IF ~LastFits(parts, r.val) THEN Fail("OSError")
             ELSE Ok(Pack(parts, r.val))

inet_aton(cp) == AtonLoop(cp, 1, <<>>)

RECURSIVE Dec(_)
Dec(n) == IF n < 10 THEN <<HexDigits[n + 1]>> ELSE Append(Dec(n \div 10), HexDigits[(n % 10) + 1])

inet_ntoa(packed) ==
    IF Len(packed) # 4 THEN Fail("OSError")
    ELSE Ok(Dec(packed[1]) \o <<".">> \o Dec(packed[2]) \o <<".">> \o
            Dec(packed[3]) \o <<".">> \o Dec(packed[4]))

(***************************************************************************)
(* bytes.hex, int(s, 16), hex, str.zfill, codecs.decode(b, 'hex')          *)
(***************************************************************************)
RECURSIVE BytesHex(_)
BytesHex(b) ==
    IF b = <<>> THEN <<>>
    ELSE <<HexDigits[(b[1] \div 16) + 1], HexDigits[(b[1] % 16) + 1]>> \o BytesHex(Tail(b))

RECURSIVE ParseHex(_, _, _)
ParseHex(h, j, val) ==
    IF j > Len(h) THEN val ELSE ParseHex(h, j + 1, MulAdd(val, 16, DigitVal(h[j])))

RECURSIVE HexOfBits(_)
HexOfBits(b) ==
    IF Len(b) <= 4 THEN <<HexDigits[BitsToNat(b) + 1]>>
    ELSE Append(HexOfBits(SubSeq(b, 5, Len(b))), HexDigits[BitsToNat(SubSeq(b, 1, 4)) + 1])

\* hex(n)[2:] for n >= 0
HexNoPrefix(n) == HexOfBits(n)

\* (variant) no padding
ZFillNone(str, w) == str

ZFill(str, w) == IF Len(str) >= w THEN str ELSE [i \in 1..(w - Len(str)) |-> "0"] \o str

RECURSIVE UnhexPairs(_)
UnhexPairs(h) ==
    IF h = <<>> THEN <<>>
    ELSE <<DigitVal(h[1]) * 16 + DigitVal(h[2])>> \o UnhexPairs(SubSeq(h, 3, Len(h)))

Unhexlify(h) ==
    IF Len(h) % 2 = 1 THEN Fail("binascii.Error")
    ELSE IF \E i \in 1..Len(h) : DigitVal(h[i]) > 15 THEN Fail("binascii.Error")
    ELSE Ok(UnhexPairs(h))

(***************************************************************************)
(* iptoint, inttoip                                                        *)
(***************************************************************************)
iptoint(ip_v4) ==
    LET a == inet_aton(ip_v4)
    IN  IF ~a.ok THEN a ELSE Ok(ParseHex(BytesHex(a.ret), 1, <<>>))

inttoip(ip_int) ==
    LET b == Unhexlify(ZFill(HexNoPrefix(ip_int), 8))
    IN  IF ~b.ok THEN b ELSE inet_ntoa(b.ret)

(***************************************************************************)
(* Inputs                                                                  *)
(***************************************************************************)
PMax == 12

MaxTokenLen == 2

None == "None"

\* no string, no integer, nothing returned
NoString == <<"None">>

NoInt == <<-1>>

Nothing == <<>>

\* the integer a * 2^24 + b * 2^16 + c * 2^8 + d
IntOf(o) == StripHigh([i \in 1..32 |-> (o[4 - ((i - 1) \div 8)] \div (2 ^ ((i - 1) % 8))) % 2])

Octets ==
    { <<0, 0, 0, 0>>, <<0, 0, 0, 1>>, <<0, 0, 0, 4>>, <<10, 86, 41, 92>>,
      <<66, 96, 160, 133>>, <<66, 130, 198, 133>>, <<127, 255, 255, 255>>,
      <<128, 0, 0, 0>>, <<128, 0, 0, 1>>, <<192, 168, 1, 255>>,
      <<223, 255, 255, 252>>, <<255, 255, 248, 255>>, <<255, 255, 255, 0>>,
      <<255, 255, 255, 251>>, <<255, 255, 255, 254>>, <<255, 255, 255, 255>> }

Ints == { IntOf(o) : o \in Octets }

\* integers inttoip is given: the addresses and three values past 2^32 - 1
WideInts == Ints \cup { ShiftL(<<1>>, 32), ShiftL(<<1>>, 35), ShiftL(<<1>>, 36) }

\* precisions encode is given: one negative, zero, and up to PMax
Precisions == (-1)..PMax

TokenChars == {base32[i] : i \in 1..Len(base32)} \cup {"z", "A"}

ShortTokens == UNION { [1..n -> TokenChars] : n \in 0..MaxTokenLen }

LongTokens ==
    { <<"f", "f", "f", "f", "f", "f", "f", "f", "f", "f", "f", "f">>,
      <<"a", "0", "c", "e", "0", "a", "c", "0", "c", "1", "0">>,
      <<"a", "0", "c", "e", "0", "a", "c", "0", "c", "1", "g">>,
      <<"0", "1", "a", "b", " ", "c", "d">> }

Tokens == ShortTokens \cup LongTokens

\* numerals a dotted quad is built from
Numerals ==
    { <<"0">>, <<"1", "0">>, <<"2", "5", "5">>, <<"2", "5", "6">>, <<"0", "1", "0">>,
      <<"0", "8">>, <<"0", "x", "1", "0">>, <<"a">>, <<>> }

Join4(q) == q[1] \o <<".">> \o q[2] \o <<".">> \o q[3] \o <<".">> \o q[4]

OtherStrings ==
    { <<>>, <<"1">>, <<"1", ".", "2">>, <<"1", ".", "2", ".", "3">>,
      <<"1", ".", "2", ".", "2", "5", "6">>,
      <<"1", ".", "2", ".", "3", ".", "4", ".", "5">>,
      <<"1", ".", "2", ".", "3", ".", "4", ".">>,
      <<"1", ".", "2", ".", "3", ".", "4", " ">>,
      <<"1", ".", "2", ".", "3", ".", "4", " ", "x">>,
      <<" ", "1", ".", "2", ".", "3", ".", "4">>,
      <<"4", "2", "9", "4", "9", "6", "7", "2", "9", "5">>,
      <<"4", "2", "9", "4", "9", "6", "7", "2", "9", "6">>,
      <<"6", "6", ".", "9", "6", ".", "1", "6", "0", ".", "1", "3", "3">>,
      <<"1", "0", ".", "8", "6", ".", "4", "1", ".", "9", "2">> }

Quads == { Join4(q) : q \in [1..4 -> Numerals] } \cup OtherStrings

(***************************************************************************)
(* State                                                                   *)
(***************************************************************************)
VARIABLES
    pc,            \* where the caller is
    ip_v4,         \* iptoint: the string given
    ip_int,        \* inttoip: the integer given
    conv,          \* what the first conversion returned
    back,          \* what the inverse conversion returned for conv
    ip_integer,    \* encode: the value given
    i_prec,        \* encode: the precision given
    precision,     \* encode: the precision after the clamp
    ip_interval,   \* encode, decode_exactly: the current interval
    ipbin,         \* encode: the characters so far; decode_exactly: the token
    bit,           \* encode: index into bits
    char,          \* encode: the accumulator; decode_exactly: char_decoded
    ip_range,      \* decode_exactly: the running half-width
    pos,           \* decode_exactly: index of the current character
    mask,          \* decode_exactly: index into [4, 2, 1], 0 between characters
    fn,            \* decode or decode_exactly, whichever was called
    token,         \* what encode returned
    ret,           \* what decode / decode_exactly returned
    err            \* the exception raised

convVars == <<ip_v4, ip_int, conv, back>>

encVars == <<ip_integer, i_prec, precision, bit, token>>

decVars == <<ip_range, pos, mask, fn, ret>>

vars == <<pc, ip_v4, ip_int, conv, back, ip_integer, i_prec, precision, ip_interval,
          ipbin, bit, char, ip_range, pos, mask, fn, token, ret, err>>

Init ==
    /\ pc = "idle"
    /\ ip_v4 = NoString /\ ip_int = NoInt /\ conv = Nothing /\ back = Nothing
    /\ ip_integer = None /\ i_prec = None /\ precision = None
    /\ ip_interval = None /\ ipbin = None /\ bit = None /\ char = None
    /\ ip_range = None /\ pos = None /\ mask = None /\ fn = None
    /\ token = NoString /\ ret = Nothing /\ err = None

codecUnchanged ==
    UNCHANGED <<ip_integer, i_prec, precision, ip_interval, ipbin, bit, char,
                ip_range, pos, mask, fn, token, ret>>

(***************************************************************************)
(* The conversions                                                         *)
(***************************************************************************)
Iptoint(s) ==
    /\ pc = "idle"
    /\ ip_v4' = s
    /\ LET r == iptoint(s)
       IN  IF r.ok THEN pc' = "iptoint_done" /\ conv' = r.ret /\ err' = err
           ELSE pc' = "error" /\ conv' = conv /\ err' = r.error
    /\ UNCHANGED <<ip_int, back>>
    /\ codecUnchanged

InttoipBack ==
    /\ pc = "iptoint_done"
    /\ LET r == inttoip(conv)
       IN  IF r.ok THEN pc' = "quad_again" /\ back' = r.ret /\ err' = err
           ELSE pc' = "error" /\ back' = back /\ err' = r.error
    /\ UNCHANGED <<ip_v4, ip_int, conv>>
    /\ codecUnchanged

Inttoip(n) ==
    /\ pc = "idle"
    /\ ip_int' = n
    /\ LET r == inttoip(n)
       IN  IF r.ok THEN pc' = "inttoip_done" /\ conv' = r.ret /\ err' = err
           ELSE pc' = "error" /\ conv' = conv /\ err' = r.error
    /\ UNCHANGED <<ip_v4, back>>
    /\ codecUnchanged

IptointBack ==
    /\ pc = "inttoip_done"
    /\ LET r == iptoint(conv)
       IN  IF r.ok THEN pc' = "int_again" /\ back' = r.ret /\ err' = err
           ELSE pc' = "error" /\ back' = back /\ err' = r.error
    /\ UNCHANGED <<ip_v4, ip_int, conv>>
    /\ codecUnchanged

(***************************************************************************)
(* encode                                                                  *)
(***************************************************************************)
Encode(x, p) ==
    /\ pc = "idle"
    /\ ip_integer' = x /\ i_prec' = p
    /\ precision' = ClampPrecision(p)
    /\ ip_interval' = EncodeInit.ip_interval
    /\ ipbin' = EncodeInit.ipbin
    /\ bit' = EncodeInit.bit
    /\ char' = EncodeInit.char
    /\ pc' = "encode"
    /\ UNCHANGED <<token, err>>
    /\ UNCHANGED convVars /\ UNCHANGED decVars

EncodeStep ==
    /\ pc = "encode"
    /\ Len(ipbin) < precision
    /\ LET L == EncodeBody(ip_integer,
                  [ip_interval |-> ip_interval, ipbin |-> ipbin, bit |-> bit, char |-> char])
       IN  /\ ip_interval' = L.ip_interval
           /\ ipbin' = L.ipbin
           /\ bit' = L.bit
           /\ char' = L.char
    /\ UNCHANGED <<pc, ip_integer, i_prec, precision, token, err>>
    /\ UNCHANGED convVars /\ UNCHANGED decVars

EncodeReturn ==
    /\ pc = "encode"
    /\ ~(Len(ipbin) < precision)
    /\ token' = ipbin
    /\ pc' = "encoded"
    /\ UNCHANGED <<ip_integer, i_prec, precision, ip_interval, ipbin, bit, char, err>>
    /\ UNCHANGED convVars /\ UNCHANGED decVars

(***************************************************************************)
(* decode_exactly, decode                                                  *)
(***************************************************************************)
DecodeEnter(f, tok) ==
    /\ fn' = f
    /\ ipbin' = tok
    /\ ip_interval' = DecodeInit.ip_interval
    /\ ip_range' = DecodeInit.ip_range
    /\ pos' = DecodeInit.pos
    /\ mask' = 0
    /\ char' = None
    /\ pc' = "decode"
    /\ UNCHANGED <<ip_integer, i_prec, precision, bit, token, ret, err>>
    /\ UNCHANGED convVars

\* decode or decode_exactly called on a string of the caller's
Decode(f, tok) ==
    /\ pc = "idle"
    /\ DecodeEnter(f, tok)

\* decode_exactly called on what encode returned, as test() does
DecodeEncoded ==
    /\ pc = "encoded"
    /\ DecodeEnter("decode_exactly", token)

DecodeLookup ==
    /\ pc = "decode" /\ mask = 0
    /\ pos <= Len(ipbin)
    /\ Known(ipbin[pos])
    /\ char' = decodemap[ipbin[pos]]
    /\ mask' = 1
    /\ UNCHANGED <<pc, ip_interval, ipbin, ip_range, pos, fn, ret, err>>
    /\ UNCHANGED convVars /\ UNCHANGED encVars

DecodeKeyError ==
    /\ pc = "decode" /\ mask = 0
    /\ pos <= Len(ipbin)
    /\ ~Known(ipbin[pos])
    /\ err' = "KeyError"
    /\ pc' = "error"
    /\ UNCHANGED <<ip_interval, ipbin, char, ip_range, pos, mask, fn, ret>>
    /\ UNCHANGED convVars /\ UNCHANGED encVars

DecodeStep ==
    /\ pc = "decode" /\ mask \in 1..3
    /\ LET L == DecodeBody([ip_interval |-> ip_interval, ip_range |-> ip_range, pos |-> pos],
                           char, bits[mask])
       IN  /\ ip_interval' = L.ip_interval
           /\ ip_range' = L.ip_range
    /\ IF mask < 3 THEN mask' = mask + 1 /\ pos' = pos
       ELSE mask' = 0 /\ pos' = pos + 1
    /\ UNCHANGED <<pc, ipbin, char, fn, ret, err>>
    /\ UNCHANGED convVars /\ UNCHANGED encVars

DecodeReturn ==
    /\ pc = "decode" /\ mask = 0
    /\ pos > Len(ipbin)
    /\ LET ip_value == Mid(ip_interval)
       IN  ret' = IF fn = "decode" THEN <<ip_value>> ELSE <<ip_value, ip_range>>
    /\ pc' = "decoded"
    /\ UNCHANGED <<ip_interval, ipbin, char, ip_range, pos, mask, fn, err>>
    /\ UNCHANGED convVars /\ UNCHANGED encVars

Next ==
    \/ \E s \in Quads : Iptoint(s)
    \/ InttoipBack
    \/ \E n \in WideInts : Inttoip(n)
    \/ IptointBack
    \/ \E x \in Ints, p \in Precisions : Encode(x, p)
    \/ EncodeStep
    \/ EncodeReturn
    \/ \E f \in {"decode", "decode_exactly"}, tok \in Tokens : Decode(f, tok)
    \/ DecodeEncoded
    \/ DecodeLookup
    \/ DecodeKeyError
    \/ DecodeStep
    \/ DecodeReturn

Spec == Init /\ [][Next]_vars

(***************************************************************************)
(* Vocabulary of the properties                                            *)
(***************************************************************************)
Alphabet == <<"0", "1", "a", "b", "c", "d", "e", "f">>

InAlphabet(c) == \E i \in 1..8 : Alphabet[i] = c

Max(a, b) == IF a > b THEN a ELSE b

DLt(a, b) == ~DLeq(b, a)

Pow2(e) == Canon(ShiftL(<<1>>, e), 0)

\* 4294967295 / 2^k, exactly
MaxOver(k) == Canon(IpMax, k)

\* |a - b| <= m, exactly
Within(a, b, m) == DLeq(a, DAdd(b, m)) /\ DLeq(b, DAdd(a, m))

\* |a - b| < m, exactly
StrictlyWithin(a, b, m) == DLt(a, DAdd(b, m)) /\ DLt(b, DAdd(a, m))

\* bit i of x counted from the most significant of 32
TopBit(x, i) == BitAt(x, 33 - i)

\* the top 3p bits of x, three at a time through the alphabet
TopBitsToken(x, p) ==
    [j \in 1..p |-> Alphabet[4 * TopBit(x, 3 * j - 2) + 2 * TopBit(x, 3 * j - 1)
                             + TopBit(x, 3 * j) + 1]]

\* bisection steps taken by the call in progress
StepsDone ==
    IF pc \in {"encode", "encoded"} THEN 3 * Len(ipbin) + bit
    ELSE 3 * (pos - 1) + (IF mask = 0 THEN 0 ELSE mask - 1)

Bisecting == pc \in {"encode", "encoded", "decode", "decoded"}

\* decode_exactly has returned for the token encode returned
RoundTripped == pc = "decoded" /\ token # NoString /\ ipbin = token

RECURSIVE SplitFrom(_, _, _)
SplitFrom(str, i, cur) ==
    IF i > Len(str) THEN <<cur>>
    ELSE IF str[i] = "." THEN <<cur>> \o SplitFrom(str, i + 1, <<>>)
    ELSE SplitFrom(str, i + 1, Append(cur, str[i]))

Split(str) == SplitFrom(str, 1, <<>>)

AllDigits(part) == Len(part) > 0 /\ \A i \in 1..Len(part) : IsDigit(part[i])

RECURSIVE DecValue(_)
DecValue(part) ==
    IF part = <<>> THEN 0
    ELSE 10 * DecValue(SubSeq(part, 1, Len(part) - 1)) + DigitVal(part[Len(part)])

IsOctet(part) == AllDigits(part) /\ Len(part) <= 9 /\ DecValue(part) <= 255

\* four decimal octets, each in 0..255
FourDecimalOctets(str) ==
    LET q == Split(str) IN Len(q) = 4 /\ \A i \in 1..4 : IsOctet(q[i])

\* the same, each octet written without leading zeros
Canonical(str) ==
    /\ FourDecimalOctets(str)
    /\ LET q == Split(str) IN \A i \in 1..4 : Len(q[i]) = 1 \/ q[i][1] # "0"

OctetsOf(str) == LET q == Split(str) IN [i \in 1..4 |-> DecValue(q[i])]

HumanGeo == <<"6", "6", ".", "9", "6", ".", "1", "6", "0", ".", "1", "3", "3">>

(***************************************************************************)
(* Properties                                                              *)
(***************************************************************************)
\* C1: when encode(x, p2) returns with p2 in 1..10, its first p1 characters
\* are encode(x, p1), for every p1 in 1..p2-1.
PrefixHierarchy ==
    (pc = "encoded" /\ i_prec \in 1..MaxPrecision) =>
        \A p1 \in 1..(i_prec - 1) : encode(ip_integer, p1) = SubSeq(token, 1, p1)

PrefixHierarchyWitness ==
    /\ pc = "encoded" /\ i_prec = MaxPrecision
    /\ Len(token) = MaxPrecision /\ token[1] # token[2] /\ token[9] # token[10]

\* C2 as stated: decode_exactly of encode(x, p), p in 1..10, returns a value
\* within the returned margin of x.
BoundingByMargin ==
    (RoundTripped /\ i_prec \in 1..MaxPrecision) =>
        Within(ret[1], Canon(ip_integer, 0), ret[2])

\* C2 as amended: the value is within 2^(31 - 3p) of x, the returned margin
\* rounded up to a power of two; at p = 10 that is 2.
BoundingByPowerOfTwo ==
    (RoundTripped /\ i_prec \in 1..MaxPrecision) =>
        /\ Within(ret[1], Canon(ip_integer, 0), Pow2(31 - 3 * i_prec))
        /\ i_prec = MaxPrecision => Within(ret[1], Canon(ip_integer, 0), Canon(<<0, 1>>, 0))

BoundingWitness ==
    /\ RoundTripped /\ i_prec = MaxPrecision /\ ip_integer = IpMax
    /\ ~Within(ret[1], Canon(ip_integer, 0), ret[2])

AlphabetClosure ==
    /\ pc = "decoded" => \A i \in 1..Len(ipbin) : InAlphabet(ipbin[i])
    /\ (pc = "error" /\ fn # None) =>
          /\ err = "KeyError" /\ ret = Nothing
          /\ \E i \in 1..Len(ipbin) : ~InAlphabet(ipbin[i])
    /\ (pc = "decode" /\ pos <= Len(ipbin)) =>
          \A i \in 1..(pos - 1) : InAlphabet(ipbin[i])

AlphabetClosureWitness ==
    /\ pc = "error" /\ fn = "decode" /\ err = "KeyError"
    /\ Len(ipbin) = 2 /\ InAlphabet(ipbin[1]) /\ ~InAlphabet(ipbin[2])

\* C5: encode raises nothing and returns min(max(p, 0), 10) characters of
\* the alphabet; above 10 the token is that of precision 10.
PrecisionClamp ==
    /\ pc \in {"encode", "encoded"} => err = None
    /\ pc = "encoded" =>
          /\ Len(token) = Min(Max(i_prec, 0), MaxPrecision)
          /\ \A i \in 1..Len(token) : InAlphabet(token[i])
          /\ i_prec > MaxPrecision => token = encode(ip_integer, MaxPrecision)

PrecisionClampWitness ==
    pc = "encoded" /\ i_prec = PMax /\ Len(token) = MaxPrecision

\* C6 as stated: every string of four decimal octets in 0..255 survives
\* iptoint then inttoip, and every integer in [0, 2^32 - 1] survives inttoip
\* then iptoint.
AddressRoundTrip ==
    /\ (ip_v4 # NoString /\ FourDecimalOctets(ip_v4)) =>
          /\ pc \in {"iptoint_done", "quad_again"}
          /\ pc = "quad_again" => back = ip_v4
    /\ (ip_int # NoInt /\ Len(ip_int) <= AddrBits) =>
          /\ pc \in {"inttoip_done", "int_again"}
          /\ pc = "int_again" => back = ip_int

\* C6 as amended: the same for the strings whose octets have no leading zero.
CanonicalRoundTrip ==
    /\ (ip_v4 # NoString /\ Canonical(ip_v4)) =>
          /\ pc \in {"iptoint_done", "quad_again"}
          /\ pc = "quad_again" => back = ip_v4
    /\ (ip_int # NoInt /\ Len(ip_int) <= AddrBits) =>
          /\ pc \in {"inttoip_done", "int_again"}
          /\ pc = "int_again" => back = ip_int

CanonicalRoundTripWitness ==
    /\ pc = "quad_again" /\ Canonical(ip_v4)
    /\ OctetsOf(ip_v4) = <<255, 10, 0, 255>>

\* C7 as stated: iptoint packs the octets most significant first and
\* returns 1115866757 for 66.96.160.133.
NetworkOrderStated ==
    (pc = "iptoint_done" /\ Canonical(ip_v4)) =>
        /\ conv = IntOf(OctetsOf(ip_v4))
        /\ ip_v4 = HumanGeo => conv = NatToBits(1115866757)

\* C7 as amended: the same, the value for 66.96.160.133 being 1113628805.
NetworkOrder ==
    (pc = "iptoint_done" /\ Canonical(ip_v4)) =>
        /\ conv = IntOf(OctetsOf(ip_v4))
        /\ ip_v4 = HumanGeo => conv = NatToBits(1113628805)

NetworkOrderWitness ==
    pc = "iptoint_done" /\ ip_v4 = HumanGeo /\ conv = NatToBits(1113628805)

\* C8: iptoint raises for every string that is not four decimal octets in
\* 0..255.
MalformedRejected ==
    (ip_v4 # NoString /\ ~FourDecimalOctets(ip_v4)) => pc = "error"

\* C9 as stated: the interval starts at (0, 4294967295), low <= high, and
\* after k steps high - low is 4294967295 / 2^k.
IntervalWidthExact ==
    Bisecting =>
        /\ StepsDone = 0 => ip_interval = <<Canon(<<>>, 0), Canon(IpMax, 0)>>
        /\ DLeq(ip_interval[1], ip_interval[2])
        /\ DAdd(ip_interval[1], MaxOver(StepsDone)) = ip_interval[2]

\* C9 as amended: the width is exact up to 21 steps and within 2^-21 of
\* 4294967295 / 2^k after that.
IntervalWidth ==
    Bisecting =>
        /\ StepsDone = 0 => ip_interval = <<Canon(<<>>, 0), Canon(IpMax, 0)>>
        /\ DLeq(ip_interval[1], ip_interval[2])
        /\ StepsDone <= 21 => DAdd(ip_interval[1], MaxOver(StepsDone)) = ip_interval[2]
        /\ StrictlyWithin(DAdd(ip_interval[1], MaxOver(StepsDone)), ip_interval[2],
                          Canon(<<1>>, 21))

IntervalWidthWitness ==
    /\ pc = "decode" /\ StepsDone = 3 * MaxPrecision
    /\ DAdd(ip_interval[1], MaxOver(StepsDone)) # ip_interval[2]

\* C10: for p in 0..10 the token encode returns is the top 3p bits of x,
\* three at a time from the most significant, through the alphabet.
TopBits ==
    (pc = "encoded" /\ i_prec \in 0..MaxPrecision) =>
        token = TopBitsToken(ip_integer, i_prec)

TopBitsWitness ==
    /\ pc = "encoded" /\ i_prec = MaxPrecision
    /\ ip_integer = IntOf(<<255, 255, 255, 251>>)
    /\ token = TopBitsToken(ip_integer, MaxPrecision)

=============================================================================
